---- MODULE Spec2Model ----
(***************************************************************************)
(* Model of the homography plugin's C entry points (homography_api.cpp).   *)
(*                                                                         *)
(* Every entry point is one action that runs the whole function.  The      *)
(* OpenCV routines it calls (imdecode, ORB, BFMatcher, findHomography,     *)
(* perspectiveTransform, findContours, approxPolyDP, solvePnP) are         *)
(* external: each is a choice among the outcomes it can deliver.           *)
(*                                                                         *)
(* Numbers.  The code computes in float/double.  The model computes in     *)
(* exact arithmetic: a coordinate is a fraction x/w, y/w kept as the       *)
(* integer triple [x, y, w] with w > 0, a length is kept as its square,    *)
(* and every comparison of the code is cross-multiplied into integers.     *)
(***************************************************************************)
EXTENDS Integers, Sequences, FiniteSets, TLC

(* ------------------------------ bounds ------------------------------- *)

\* largest number of point pairs / matches handed to one call
MaxPoints == 35

\* largest anchor image width and height
MaxDim == 2

(* ------------------------- program constants ------------------------- *)

MIN_MATCHES == 10

\* the inlier ratio 0.3 of "num_inliers < n * 0.3", as a fraction
INLIER_RATIO_NUM == 3
INLIER_RATIO_DEN == 10

\* the aspect distortion window [0.3, 3.0], squared, as fractions
DISTORTION_LOW_SQ_NUM == 9
DISTORTION_LOW_SQ_DEN == 100
DISTORTION_HIGH_SQ == 9

VARIABLES
    pc,      \* "idle": no call running; "returned": a call has returned
    call,    \* the entry point called and its arguments
    ext,     \* what the call asked of the external routines, and their answers
    result   \* the struct the call returned

vars == <<pc, call, ext, result>>

(* ---------------------------- fractions ------------------------------ *)

Abs(n) == IF n < 0 THEN -n ELSE n

Sq(n) == n * n

\* the point x/w, y/w
Pt(x, y, w) == [x |-> x, y |-> y, w |-> w]

\* the point with integer coordinates x, y
P(x, y) == Pt(x, y, 1)

\* same point, denominator made positive
NormPt(x, y, w) == IF w < 0 THEN Pt(-x, -y, -w) ELSE Pt(x, y, w)

\* a.x - o.x and a.y - o.y, both times o.w * a.w (> 0)
DxNum(o, a) == a.x * o.w - o.x * a.w
DyNum(o, a) == a.y * o.w - o.y * a.w

(* ------------------------- external: OpenCV -------------------------- *)

\* cv::perspectiveTransform on one point: w = 0 gives (0, 0)
perspectiveTransform(p, H) ==
    LET X == H[1] * p.x + H[2] * p.y + H[3] * p.w
        Y == H[4] * p.x + H[5] * p.y + H[6] * p.w
        W == H[7] * p.x + H[8] * p.y + H[9] * p.w
    IN  IF W = 0 THEN P(0, 0) ELSE NormPt(X, Y, W)

\* 3x3 determinant of a row-major matrix
Det3(H) ==
      H[1] * (H[5] * H[9] - H[6] * H[8])
    - H[2] * (H[4] * H[9] - H[6] * H[7])
    + H[3] * (H[4] * H[8] - H[5] * H[7])

ZeroMatrix == <<0, 0, 0, 0, 0, 0, 0, 0, 0>>

\* Matrices cv::findHomography may hand back (row-major).  For an anchor of
\* width w and height h: the identity, a uniform scaling, a quarter turn,
\* a mirror image, stretches and shears at and beyond the distortion
\* window, projective maps that keep the rectangle convex, fold it or turn
\* it into a dart, and singular matrices.
HomographySet(w, h) ==
    { <<1, 0, 0,   0, 1, 0,   0, 0, 1>>,      \* identity
      <<2, 0, 1,   0, 2, 1,   0, 0, 1>>,      \* scale 2, shifted
      <<0, -1, h,  1, 0, 0,   0, 0, 1>>,      \* quarter turn
      <<-1, 0, w,  0, 1, 0,   0, 0, 1>>,      \* mirror image
      <<3, 0, 0,   0, 1, 0,   0, 0, 1>>,      \* stretch, distortion 3
      <<3, 0, 0,   1, 1, 0,   0, 0, 1>>,      \* distortion sqrt(10)
      <<1, 1, 0,   0, 3, 0,   0, 0, 1>>,      \* distortion 1/sqrt(10)
      <<1, 0, 0,   0, 4, 0,   0, 0, 1>>,      \* distortion 1/4
      <<2, 0, 0,   0, 2, 0,   1, 0, 1>>,      \* perspective, convex
      <<1, 0, 0,   0, 1, 0,   2, 0, -1>>,     \* perspective, folds the quad
      <<1, 0, 0,   0, 1, 0,   -2 * h, -2 * w, 3 * w * h>>,    \* a dart
      <<1, 0, 0,   0, 1, 0,   1, 0, 0>>,      \* w = 0 on the left edge
      <<1, 1, 0,   1, 1, 0,   0, 0, 1>>,      \* singular, rank 2
      <<1, 0, 0,   0, 0, 0,   0, 0, 1>>,      \* singular, rank 2
      ZeroMatrix }                            \* singular, all zero

\* Number of non-zero entries cv::findHomography may leave in the inlier
\* mask, which has one entry per point pair.
InlierCounts(n) == 0 .. n

\* cv::findHomography(pts_anchor, pts_scene, RANSAC, ...) on n point pairs:
\* no matrix (found = FALSE), or a 3x3 matrix and an inlier mask.
findHomography(n, w, h) ==
    { [found |-> FALSE, H |-> ZeroMatrix, inliers |-> 0] }
    \cup
    { [found |-> TRUE, H |-> H, inliers |-> k] :
          H \in HomographySet(w, h), k \in InlierCounts(n) }

(* ----------------------------- results ------------------------------- *)

ZeroCorners == <<P(0, 0), P(0, 0), P(0, 0), P(0, 0)>>

\* rotation = atan2(dy, dx), kept as the pair it is computed from;
\* scale = (top_edge / width + left_edge / height) / 2, kept as the two
\* squared edge lengths (fractions n/d); both are zero after "= {}".
ZeroRotation == [dy |-> 0, dx |-> 0]
ZeroScale == [top_n |-> 0, top_d |-> 1, left_n |-> 0, left_d |-> 1]

\* HomographyResult result = {};
ZeroHomographyResult ==
    [ center     |-> P(0, 0),
      rotation   |-> ZeroRotation,
      scale      |-> ZeroScale,
      homography |-> ZeroMatrix,
      corners    |-> ZeroCorners,
      num_matches |-> 0,
      status     |-> 0 ]

(* ---------------- external: features and matching ------------------ *)

\* the ratio 0.75 of Lowe's test, as a fraction
RATIO_THRESH_NUM == 3
RATIO_THRESH_DEN == 4

\* One row of knn_matches: `size` neighbours, the nearest at Hamming
\* distance d0, the second nearest at d1.
KnnGood == [size |-> 2, d0 |-> 2, d1 |-> 4]     \* 2 < 0.75 * 4
KnnTie == [size |-> 2, d0 |-> 3, d1 |-> 4]      \* 3 = 0.75 * 4
KnnFar == [size |-> 2, d0 |-> 4, d1 |-> 4]
KnnSingle == [size |-> 1, d0 |-> 0, d1 |-> 0]   \* one neighbour only
KnnKinds == {KnnGood, KnnTie, KnnFar, KnnSingle}

\* knn_matches as a bag: how many rows of each kind.  The order of the
\* rows only orders the points handed to cv::findHomography.
NoKnn == [m \in KnnKinds |-> 0]

KnnSet ==
    { [m \in KnnKinds |-> IF m = KnnGood THEN g ELSE j] :
          g \in {0, 3, MIN_MATCHES - 1, MIN_MATCHES, MaxPoints},
          j \in {0, 1} }

\* knn_matches.size(): one row per anchor descriptor
KnnRows(knn) == knn[KnnGood] + knn[KnnTie] + knn[KnnFar] + knn[KnnSingle]

\* A faulty variant of ratio_test: a distance at the threshold passes.
ratio_test_not_strict(m) ==
    m.size = 2 /\ m.d0 * RATIO_THRESH_DEN <= RATIO_THRESH_NUM * m.d1

\* m.size() == 2 && m[0].distance < RATIO_THRESH * m[1].distance
ratio_test(m) ==
    m.size = 2 /\ m.d0 * RATIO_THRESH_DEN < RATIO_THRESH_NUM * m.d1

\* good_matches.size() after the loop over knn_matches
good_matches_size(knn) ==
      (IF ratio_test(KnnGood) THEN knn[KnnGood] ELSE 0)
    + (IF ratio_test(KnnTie) THEN knn[KnnTie] ELSE 0)
    + (IF ratio_test(KnnFar) THEN knn[KnnFar] ELSE 0)
    + (IF ratio_test(KnnSingle) THEN knn[KnnSingle] ELSE 0)

\* nothing asked of the external routines
NoExt ==
    [ decodes   |-> <<>>,      \* calls of cv::imdecode, in order
      anchor_cols |-> 0,       \* size of the gray anchor image, once made
      anchor_rows |-> 0,
      kp_anchor |-> 0,         \* keypoints ORB found on the anchor
      kp_scene  |-> 0,         \* keypoints ORB found on the scene
      desc_empty |-> FALSE,    \* a descriptor matrix was empty
      matcher   |-> 0,         \* calls of BFMatcher::knnMatch
      knn       |-> NoKnn,     \* the rows it returned
      estimator |-> 0,         \* calls of cv::findHomography
      found     |-> FALSE,     \* findHomography returned a 3x3 matrix
      inliers   |-> 0,         \* non-zero entries of its inlier mask
      total     |-> 0 ]        \* point pairs handed to it

(* --------------------- quadrilateral geometry ------------------------ *)

\* (a.x - o.x) * (b.y - o.y) - (a.y - o.y) * (b.x - o.x), times the
\* positive factor a.w * b.w * o.w * o.w: the sign is the code's sign
cross_product(o, a, b) ==
    DxNum(o, a) * DyNum(o, b) - DyNum(o, a) * DxNum(o, b)

\* the inline convexity test of the match pipelines
scene_is_convex(sc) ==
    LET cp1 == cross_product(sc[1], sc[2], sc[3])
        cp2 == cross_product(sc[2], sc[3], sc[4])
        cp3 == cross_product(sc[3], sc[4], sc[1])
        cp4 == cross_product(sc[4], sc[1], sc[2])
    IN  \/ (cp1 > 0 /\ cp2 > 0 /\ cp3 > 0 /\ cp4 > 0)
        \/ (cp1 < 0 /\ cp2 < 0 /\ cp3 < 0 /\ cp4 < 0)

\* squared distance of p and q as the fraction n / d
EdgeSq(p, q) ==
    [n |-> Sq(DxNum(p, q)) + Sq(DyNum(p, q)), d |-> Sq(p.w * q.w)]

\* aspect_distortion squared, as the fraction n / d:
\* ((top_edge / left_edge) / (width / height))^2
DistortionSq(sc, w, h) ==
    LET top  == EdgeSq(sc[1], sc[2])
        left == EdgeSq(sc[1], sc[4])
    IN  [n |-> top.n * left.d * Sq(h), d |-> top.d * left.n * Sq(w)]

\* A faulty variant of too_distorted: only the upper limit is tested.
too_distorted_high_only(sc, w, h) ==
    LET ds == DistortionSq(sc, w, h)
    IN  ds.n > DISTORTION_HIGH_SQ * ds.d

\* aspect_distortion < 0.3f || aspect_distortion > 3.0f
too_distorted(sc, w, h) ==
    LET ds == DistortionSq(sc, w, h)
    IN  \/ ds.n * DISTORTION_LOW_SQ_DEN < DISTORTION_LOW_SQ_NUM * ds.d
        \/ ds.n > DISTORTION_HIGH_SQ * ds.d

\* the mean of the four corners
CenterOf(sc) ==
    LET d == sc[1].w * sc[2].w * sc[3].w * sc[4].w
        sx == sc[1].x * sc[2].w * sc[3].w * sc[4].w
            + sc[2].x * sc[1].w * sc[3].w * sc[4].w
            + sc[3].x * sc[1].w * sc[2].w * sc[4].w
            + sc[4].x * sc[1].w * sc[2].w * sc[3].w
        sy == sc[1].y * sc[2].w * sc[3].w * sc[4].w
            + sc[2].y * sc[1].w * sc[3].w * sc[4].w
            + sc[3].y * sc[1].w * sc[2].w * sc[4].w
            + sc[4].y * sc[1].w * sc[2].w * sc[3].w
    IN  Pt(sx, sy, 4 * d)

(* ------------------ the shared tail of both pipelines ---------------- *)

\* A faulty variant of low_confidence: the share of inliers is not looked at.
low_confidence_count_only(num_inliers, total) ==
    num_inliers < MIN_MATCHES

\* A faulty variant of low_confidence: only the share of inliers is tested.
low_confidence_share_only(num_inliers, total) ==
    num_inliers * INLIER_RATIO_DEN < total * INLIER_RATIO_NUM

\* num_inliers < MIN_MATCHES || num_inliers < total * 0.3
low_confidence(num_inliers, total) ==
    \/ num_inliers < MIN_MATCHES
    \/ num_inliers * INLIER_RATIO_DEN < total * INLIER_RATIO_NUM

\* A faulty variant of geometry_stage: num_matches becomes the inlier count
\* before the quadrilateral is validated.
geometry_stage_counts_early(base, H, num_inliers, w, h) ==
    LET anchor_corners == <<P(0, 0), P(w, 0), P(w, h), P(0, h)>>
        sc == [i \in 1..4 |-> perspectiveTransform(anchor_corners[i], H)]
        top == EdgeSq(sc[1], sc[2])
        left == EdgeSq(sc[1], sc[4])
        filled == [base EXCEPT
                     !.homography = H,
                     !.corners = sc,
                     !.center = CenterOf(sc),
                     !.rotation = [dy |-> DyNum(sc[1], sc[2]),
                                   dx |-> DxNum(sc[1], sc[2])],
                     !.scale = [top_n |-> top.n, top_d |-> top.d * Sq(w),
                                left_n |-> left.n, left_d |-> left.d * Sq(h)],
                     !.num_matches = num_inliers]
    IN  IF ~scene_is_convex(sc) \/ too_distorted(sc, w, h)
        THEN [filled EXCEPT !.status = 0]
        ELSE [filled EXCEPT !.status = 1]

\* From "Copy homography matrix to result" to the final return: fills the
\* geometry, then validates the quadrilateral.  base is the result so far.
geometry_stage(base, H, num_inliers, w, h) ==
    LET anchor_corners == <<P(0, 0), P(w, 0), P(w, h), P(0, h)>>
        sc == [i \in 1..4 |-> perspectiveTransform(anchor_corners[i], H)]
        top == EdgeSq(sc[1], sc[2])
        left == EdgeSq(sc[1], sc[4])
        filled == [base EXCEPT
                     !.homography = H,
                     !.corners = sc,
                     !.center = CenterOf(sc),
                     !.rotation = [dy |-> DyNum(sc[1], sc[2]),
                                   dx |-> DxNum(sc[1], sc[2])],
                     !.scale = [top_n |-> top.n, top_d |-> top.d * Sq(w),
                                left_n |-> left.n, left_d |-> left.d * Sq(h)]]
    IN  IF ~scene_is_convex(sc)
        THEN [filled EXCEPT !.status = 0]
        ELSE IF too_distorted(sc, w, h)
        THEN [filled EXCEPT !.status = 0]
        ELSE [filled EXCEPT !.num_matches = num_inliers, !.status = 1]

\* From the call of cv::findHomography to the final return, on `total`
\* point pairs; base already carries num_matches = total.
estimate_stage(base, total, w, h) ==
    { [ result |->
            IF ~e.found THEN [base EXCEPT !.status = 0]
            ELSE IF low_confidence(e.inliers, total)
            THEN [base EXCEPT !.status = 0]
            ELSE geometry_stage(base, e.H, e.inliers, w, h),
        found |-> e.found,
        inliers |-> IF e.found THEN e.inliers ELSE 0 ] :
      e \in findHomography(total, w, h) }

(* ------------------ hg_find_homography_from_points ------------------- *)

Dims == -1 .. MaxDim

\* A faulty variant of from_points_checks: the size check is made before
\* the count check.
from_points_checks_size_first(present, num_points, anchor_width, anchor_height) ==
    IF ~present THEN "null"
    ELSE IF anchor_width <= 0 \/ anchor_height <= 0 THEN "dims"
    ELSE IF num_points < 4 THEN "few"
    ELSE "ok"

\* The checks before the point vectors are built, in the code's order:
\* which of them returns, or "ok".  present: no coordinate array is null.
from_points_checks(present, num_points, anchor_width, anchor_height) ==
    IF ~present THEN "null"
    ELSE IF num_points < 4 THEN "few"
    ELSE IF anchor_width <= 0 \/ anchor_height <= 0 THEN "dims"
    ELSE "ok"

hg_find_homography_from_points ==
    /\ pc = "idle"
    /\ \E pts0_x \in BOOLEAN, pts0_y \in BOOLEAN,
          pts1_x \in BOOLEAN, pts1_y \in BOOLEAN,      \* TRUE: not null
          num_points \in -1 .. MaxPoints,
          anchor_width \in Dims, anchor_height \in Dims :
        /\ call' = [ep |-> "hg_find_homography_from_points",
                    pts0_x |-> pts0_x, pts0_y |-> pts0_y,
                    pts1_x |-> pts1_x, pts1_y |-> pts1_y,
                    num_points |-> num_points,
                    anchor_width |-> anchor_width,
                    anchor_height |-> anchor_height]
        /\ LET check == from_points_checks(
                            pts0_x /\ pts0_y /\ pts1_x /\ pts1_y,
                            num_points, anchor_width, anchor_height)
           IN
           IF check = "null"
           THEN /\ result' = [ZeroHomographyResult EXCEPT !.status = -1]
                /\ ext' = NoExt
           ELSE IF check = "few"
           THEN /\ result' = [ZeroHomographyResult EXCEPT
                                !.status = 0, !.num_matches = num_points]
                /\ ext' = NoExt
           ELSE IF check = "dims"
           THEN /\ result' = [ZeroHomographyResult EXCEPT !.status = -1]
                /\ ext' = NoExt
           ELSE \E o \in estimate_stage(
                             [ZeroHomographyResult EXCEPT
                                !.num_matches = num_points],
                             num_points, anchor_width, anchor_height) :
                    /\ result' = o.result
                    /\ ext' = [NoExt EXCEPT !.anchor_cols = anchor_width,
                                            !.anchor_rows = anchor_height,
                                            !.estimator = 1,
                                            !.found = o.found,
                                            !.inliers = o.inliers,
                                            !.total = num_points]
    /\ pc' = "returned"

(* -------------------- compute_homography_internal -------------------- *)

\* The whole function on an anchor of cols x rows pixels: the set of
\* [result, ext] it can end with, one per answer of the external routines.
compute_homography_internal(cols, rows) ==
    UNION {
      LET e1 == [NoExt EXCEPT !.anchor_cols = cols, !.anchor_rows = rows,
                              !.kp_anchor = KnnRows(knn), !.kp_scene = kpS]
      IN  IF KnnRows(knn) < 4 \/ kpS < 4
          THEN { [result |-> [ZeroHomographyResult EXCEPT !.status = 0],
                  ext |-> e1] }
          ELSE IF dE
          THEN { [result |-> [ZeroHomographyResult EXCEPT !.status = 0],
                  ext |-> [e1 EXCEPT !.desc_empty = TRUE]] }
          ELSE
            LET n == good_matches_size(knn)
                base == [ZeroHomographyResult EXCEPT !.num_matches = n]
                e2 == [e1 EXCEPT !.matcher = 1, !.knn = knn]
            IN  IF n < MIN_MATCHES
                THEN { [result |-> [base EXCEPT !.status = 0], ext |-> e2] }
                ELSE { [result |-> o.result,
                        ext |-> [e2 EXCEPT !.estimator = 1,
                                           !.found = o.found,
                                           !.inliers = o.inliers,
                                           !.total = n]] :
                       o \in estimate_stage(base, n, cols, rows) }
      : knn \in KnnSet, kpS \in {3, 4}, dE \in BOOLEAN }

(* ------------------------ hg_find_homography ------------------------- *)

\* A faulty variant of encoded_input_invalid: the sizes are not looked at.
encoded_input_invalid_pointers_only(anchor_bytes, anchor_size, scene_bytes, scene_size) ==
    ~anchor_bytes \/ ~scene_bytes

\* anchor_bytes == nullptr || scene_bytes == nullptr, then
\* anchor_size == 0 || scene_size == 0  (a pointer is TRUE when not null)
encoded_input_invalid(anchor_bytes, anchor_size, scene_bytes, scene_size) ==
    \/ ~anchor_bytes \/ ~scene_bytes
    \/ anchor_size = 0 \/ scene_size = 0

\* cv::imdecode(..., IMREAD_GRAYSCALE): an empty Mat, or an image
Undecodable == [empty |-> TRUE, cols |-> 0, rows |-> 0]

\* one call of cv::imdecode: the image decoded and whether it came out empty
Decode(image, mat) == [image |-> image, empty |-> mat.empty]
imdecode ==
    {Undecodable} \cup
    { [empty |-> FALSE, cols |-> c, rows |-> r] :
          c \in 1 .. MaxDim, r \in 1 .. MaxDim }

hg_find_homography ==
    /\ pc = "idle"
    /\ \E anchor_bytes \in BOOLEAN, scene_bytes \in BOOLEAN,  \* TRUE: not null
          anchor_size \in 0 .. 1, scene_size \in 0 .. 1 :
        /\ call' = [ep |-> "hg_find_homography",
                    anchor_bytes |-> anchor_bytes, anchor_size |-> anchor_size,
                    scene_bytes |-> scene_bytes, scene_size |-> scene_size]
        /\ IF encoded_input_invalid(anchor_bytes, anchor_size,
                                    scene_bytes, scene_size)
           THEN /\ result' = [ZeroHomographyResult EXCEPT !.status = -1]
                /\ ext' = NoExt
           ELSE \E anchor \in imdecode :
                  IF anchor.empty
                  THEN /\ result' = [ZeroHomographyResult EXCEPT !.status = -2]
                       /\ ext' = [NoExt EXCEPT
                                    !.decodes = <<Decode("anchor", anchor)>>]
                  ELSE \E scene \in imdecode :
                    IF scene.empty
                    THEN /\ result' =
                              [ZeroHomographyResult EXCEPT !.status = -3]
                         /\ ext' = [NoExt EXCEPT !.decodes =
                                      << Decode("anchor", anchor),
                                         Decode("scene", scene) >>]
                    ELSE \E o \in compute_homography_internal(
                                      anchor.cols, anchor.rows) :
                           /\ result' = o.result
                           /\ ext' = [o.ext EXCEPT !.decodes =
                                        << Decode("anchor", anchor),
                                           Decode("scene", scene) >>]
    /\ pc' = "returned"

(* ---------------------- hg_find_homography_raw ----------------------- *)

Channels == 0 .. 5

\* A faulty variant of bad_channels: two channels are let through.
bad_channels_two_allowed(channels) == channels \notin {1, 2, 3, 4}

\* channels != 1 && channels != 3 && channels != 4
bad_channels(channels) == channels # 1 /\ channels # 3 /\ channels # 4

\* scene sizes: the scene's size only decides whether the input is valid
SceneDims == -1 .. 1

hg_find_homography_raw ==
    /\ pc = "idle"
    /\ \E anchor_data \in BOOLEAN, scene_data \in BOOLEAN,   \* TRUE: not null
          anchor_width \in Dims, anchor_height \in Dims,
          scene_width \in SceneDims, scene_height \in SceneDims,
          anchor_channels \in Channels, scene_channels \in Channels :
        /\ call' = [ep |-> "hg_find_homography_raw",
                    anchor_data |-> anchor_data,
                    anchor_width |-> anchor_width,
                    anchor_height |-> anchor_height,
                    anchor_channels |-> anchor_channels,
                    scene_data |-> scene_data,
                    scene_width |-> scene_width,
                    scene_height |-> scene_height,
                    scene_channels |-> scene_channels]
        /\ IF ~anchor_data \/ ~scene_data
           THEN /\ result' = [ZeroHomographyResult EXCEPT !.status = -1]
                /\ ext' = NoExt
           ELSE IF \/ anchor_width <= 0 \/ anchor_height <= 0
                   \/ scene_width <= 0 \/ scene_height <= 0
           THEN /\ result' = [ZeroHomographyResult EXCEPT !.status = -1]
                /\ ext' = NoExt
           ELSE IF bad_channels(anchor_channels)
           THEN /\ result' = [ZeroHomographyResult EXCEPT !.status = -1]
                /\ ext' = NoExt
           ELSE IF bad_channels(scene_channels)
           THEN /\ result' = [ZeroHomographyResult EXCEPT !.status = -1]
                /\ ext' = NoExt
           ELSE \E o \in compute_homography_internal(
                             anchor_width, anchor_height) :
                  /\ result' = o.result
                  /\ ext' = o.ext
    /\ pc' = "returned"

(* ======================== paper detection ============================ *)

(* Float values of the paper detector (ratios, lengths, scores) are kept   *)
(* as fixed-point numbers: the integer v stands for v / FixScale, and a    *)
(* division or square root rounds down to that resolution.                 *)
FixScale == 1000

\* largest number of contours cv::findContours returns
MaxContours == 2

\* the smaller side of the images handed to the paper detector, in pixels
ImgUnit == 20

\* largest coordinate of the points the helper routines are tried on
GridMax == 2

RECURSIVE SqrtBisect(_, _, _)
SqrtBisect(n, lo, hi) ==
    IF lo >= hi THEN lo
    ELSE LET mid == (lo + hi + 1) \div 2
         IN  IF mid * mid <= n THEN SqrtBisect(n, mid, hi)
             ELSE SqrtBisect(n, lo, mid - 1)

\* floor of the square root
ISqrt(n) == SqrtBisect(n, 0, 46340)

Min2(a, b) == IF a < b THEN a ELSE b
Max2(a, b) == IF a > b THEN a ELSE b

\* index of the first smallest / first largest element (std::min_element,
\* std::max_element)
MinIndex(v) ==
    CHOOSE i \in DOMAIN v :
        /\ \A j \in DOMAIN v : v[i] <= v[j]
        /\ \A j \in DOMAIN v : j < i => v[j] > v[i]
MaxIndex(v) ==
    CHOOSE i \in DOMAIN v :
        /\ \A j \in DOMAIN v : v[i] >= v[j]
        /\ \A j \in DOMAIN v : j < i => v[j] < v[i]

\* A faulty variant of is_convex_quadrilateral: the cross product at the
\* last vertex is not looked at.
is_convex_quadrilateral_three(pts) ==
    IF Len(pts) # 4 THEN FALSE
    ELSE LET cp1 == cross_product(pts[1], pts[2], pts[3])
             cp2 == cross_product(pts[2], pts[3], pts[4])
             cp3 == cross_product(pts[3], pts[4], pts[1])
         IN  \/ (cp1 > 0 /\ cp2 > 0 /\ cp3 > 0)
             \/ (cp1 < 0 /\ cp2 < 0 /\ cp3 < 0)

\* pts are pixel points P(x, y)
order_points_clockwise(pts) ==
    IF Len(pts) # 4 THEN pts
    ELSE LET sums == [i \in 1..4 |-> pts[i].x + pts[i].y]
             diffs == [i \in 1..4 |-> pts[i].y - pts[i].x]
         IN  << pts[MinIndex(sums)],      \* top-left
                pts[MinIndex(diffs)],     \* top-right
                pts[MaxIndex(sums)],      \* bottom-right
                pts[MaxIndex(diffs)] >>   \* bottom-left

is_convex_quadrilateral(pts) ==
    IF Len(pts) # 4 THEN FALSE
    ELSE LET cp1 == cross_product(pts[1], pts[2], pts[3])
             cp2 == cross_product(pts[2], pts[3], pts[4])
             cp3 == cross_product(pts[3], pts[4], pts[1])
             cp4 == cross_product(pts[4], pts[1], pts[2])
         IN  \/ (cp1 > 0 /\ cp2 > 0 /\ cp3 > 0 /\ cp4 > 0)
             \/ (cp1 < 0 /\ cp2 < 0 /\ cp3 < 0 /\ cp4 < 0)

\* length of the edge between two pixel points, in 1 / FixScale pixels
edge_length(p1, p2) ==
    LET dx == p2.x - p1.x
        dy == p2.y - p1.y
    IN  ISqrt((dx * dx + dy * dy) * FixScale * FixScale)

(* --------------------------- configuration --------------------------- *)

\* 210.0f / 297.0f
A4_ASPECT == (210 * FixScale) \div 297

\* the values hg_default_paper_config() returns
hg_default_paper_config ==
    [ canny_threshold1 |-> 50,
      canny_threshold2 |-> 150,
      blur_kernel_size |-> 5,
      min_area_ratio |-> (5 * FixScale) \div 100,
      max_area_ratio |-> (95 * FixScale) \div 100,
      expected_aspect_ratio |-> A4_ASPECT,
      aspect_ratio_tolerance |-> (3 * FixScale) \div 10,
      paper_width_mm |-> 210,
      paper_height_mm |-> 297,
      focal_length |-> 0,
      cx |-> 0,
      cy |-> 0 ]

\* A faulty variant of null_config_defaults: no expected aspect ratio.
null_config_no_aspect ==
    [hg_default_paper_config EXCEPT !.expected_aspect_ratio = 0]

\* the values detect_paper_internal uses when config is NULL
null_config_defaults ==
    [ canny_threshold1 |-> 50,
      canny_threshold2 |-> 150,
      blur_kernel_size |-> 5,
      min_area_ratio |-> (5 * FixScale) \div 100,
      max_area_ratio |-> (95 * FixScale) \div 100,
      expected_aspect_ratio |-> A4_ASPECT,
      aspect_ratio_tolerance |-> (3 * FixScale) \div 10,
      paper_width_mm |-> 210,
      paper_height_mm |-> 297,
      focal_length |-> 0,
      cx |-> 0,
      cy |-> 0 ]

\* Configurations a caller passes: the defaults; no expected ratio, a wide
\* area window and no blur; a ratio of 1/4 with a tolerance of 5; and the
\* defaults with camera intrinsics and no paper width.
ConfigSet ==
    { hg_default_paper_config,
      [hg_default_paper_config EXCEPT
          !.expected_aspect_ratio = 0,
          !.min_area_ratio = FixScale \div 100,
          !.blur_kernel_size = 0],
      [hg_default_paper_config EXCEPT
          !.expected_aspect_ratio = FixScale \div 4,
          !.aspect_ratio_tolerance = 5 * FixScale],
      [hg_default_paper_config EXCEPT
          !.focal_length = 500, !.cx = 10, !.paper_width_mm = 0] }

NullConfig == [null |-> TRUE]
ConfigArgs == {NullConfig} \cup { [null |-> FALSE, cfg |-> c] : c \in ConfigSet }

(* --------------------- external: edges and contours ------------------ *)

\* Polygons cv::approxPolyDP returns for a contour, in pixels: a triangle,
\* upright and lying A4-like rectangles, a square, the frame of a 20 x 20
\* image, a sliver one pixel wide, a diamond and a dart.
PolygonSet ==
    { << P(2, 2), P(18, 2), P(10, 18) >>,
      << P(5, 3), P(5, 17), P(15, 17), P(15, 3) >>,
      << P(17, 15), P(17, 5), P(3, 5), P(3, 15) >>,
      << P(4, 4), P(16, 4), P(16, 16), P(4, 16) >>,
      << P(0, 0), P(0, 20), P(20, 20), P(20, 0) >>,
      << P(5, 2), P(6, 2), P(6, 18), P(5, 18) >>,
      << P(10, 2), P(18, 10), P(10, 18), P(2, 10) >>,
      << P(2, 2), P(18, 10), P(2, 18), P(8, 10) >> }

\* twice the signed area of a polygon (shoelace)
RECURSIVE Shoelace(_, _)
Shoelace(poly, i) ==
    IF i > Len(poly) THEN 0
    ELSE LET a == poly[i]
             b == poly[(i % Len(poly)) + 1]
         IN  a.x * b.y - b.x * a.y + Shoelace(poly, i + 1)

\* cv::contourArea of a contour that is the polygon itself
contourArea(poly) == Abs(Shoelace(poly, 1)) \div 2

\* cv::findContours: a list of contours, each given by its area and by the
\* polygon cv::approxPolyDP makes of it
Contour(poly) == [area |-> contourArea(poly), approx |-> poly]

RECURSIVE ContourLists(_)
ContourLists(n) ==
    IF n = 0 THEN { <<>> }
    ELSE LET shorter == ContourLists(n - 1)
         IN  shorter \cup
             { Append(cs, Contour(poly)) :
                   cs \in { l \in shorter : Len(l) = n - 1 },
                   poly \in PolygonSet }

findContours == ContourLists(MaxContours)

\* cv::findHomography(canonical_corners, best_quad) on four point pairs:
\* no matrix; a regular matrix, the affine map through corners 0, 1 and 3
\* of the quadrilateral with the paper's width and height as the units of
\* length; or a singular matrix.
findHomography4(paper_w, paper_h, quad) ==
    { [found |-> FALSE, H |-> ZeroMatrix],
      [found |-> TRUE,
       H |-> << quad[2].x - quad[1].x, quad[4].x - quad[1].x, quad[1].x,
                quad[2].y - quad[1].y, quad[4].y - quad[1].y, quad[1].y,
                0, 0, 1 >>],
      [found |-> TRUE, H |-> <<1, 0, 0, 0, 0, 0, 0, 0, 1>>] }

ZeroVec == <<0, 0, 0>>

\* cv::solvePnP: not solved, or a rotation and a translation vector
solvePnP ==
    { [solved |-> FALSE, rvec |-> ZeroVec, tvec |-> ZeroVec],
      [solved |-> TRUE, rvec |-> <<0, 0, 1>>, tvec |-> <<0, 0, 500>>] }

(* ----------------------- detect_paper_internal ----------------------- *)

\* PaperDetectionResult result = {};
ZeroPaperResult ==
    [ corners    |-> ZeroCorners,
      center     |-> P(0, 0),
      homography |-> ZeroMatrix,
      rvec       |-> ZeroVec,
      tvec       |-> ZeroVec,
      area       |-> 0,
      perimeter  |-> 0,
      aspect_ratio |-> 0,
      status     |-> 0 ]

\* what the paper detector asked of the external routines
NoPaperExt ==
    [ decodes    |-> <<>>,     \* calls of cv::imdecode
      cols       |-> 0,        \* size of the gray image, once it is there
      rows       |-> 0,
      contours   |-> <<>>,     \* what cv::findContours returned
      estimator  |-> 0,        \* calls of cv::findHomography
      found      |-> FALSE,    \* it returned a 3x3 matrix
      pnp        |-> 0,        \* calls of cv::solvePnP
      solved     |-> FALSE ]   \* it reported success

\* the configuration in force
effective_config(config) ==
    IF ~config.null THEN config.cfg ELSE null_config_defaults

\* min(width, height) / max(width, height) of an ordered quadrilateral
quad_aspect_ratio(quad) ==
    LET width == (edge_length(quad[1], quad[2])
                  + edge_length(quad[3], quad[4])) \div 2
        height == (edge_length(quad[2], quad[3])
                   + edge_length(quad[4], quad[1])) \div 2
    IN  (Min2(width, height) * FixScale) \div Max2(width, height)

\* std::abs(aspect_ratio - expected) / expected
ratio_diff(aspect_ratio, expected) ==
    (Abs(aspect_ratio - expected) * FixScale) \div expected

\* The body of the loop over the contours, for one contour: the ordered
\* quadrilateral and its score, or passed = FALSE where the code continues.
Rejected == [passed |-> FALSE, quad |-> <<>>, score |-> 0, area |-> 0]

\* the loop body from the convexity test on; quad is the ordered polygon
examine_quadrilateral(quad, area, cfg, cols, rows) ==
    LET min_edge == Min2(Min2(edge_length(quad[1], quad[2]),
                              edge_length(quad[2], quad[3])),
                         Min2(edge_length(quad[3], quad[4]),
                              edge_length(quad[4], quad[1])))
        aspect_ratio == quad_aspect_ratio(quad)
    IN  IF ~is_convex_quadrilateral(quad) THEN Rejected
        ELSE IF min_edge * 100 < Min2(cols, rows) * 5 * FixScale
        THEN Rejected
        ELSE IF cfg.expected_aspect_ratio > 0
        THEN LET diff == ratio_diff(aspect_ratio, cfg.expected_aspect_ratio)
             IN  IF diff > cfg.aspect_ratio_tolerance THEN Rejected
                 ELSE [passed |-> TRUE, quad |-> quad,
                       score |-> area * (FixScale - diff), area |-> area]
        ELSE [passed |-> TRUE, quad |-> quad,
              score |-> area * FixScale, area |-> area]

\* A faulty variant of examine_contour: the area filter is left out.
examine_contour_any_area(contour, cfg, cols, rows) ==
    IF Len(contour.approx) # 4 THEN Rejected
    ELSE examine_quadrilateral(order_points_clockwise(contour.approx),
                               contour.area, cfg, cols, rows)

examine_contour(contour, cfg, cols, rows) ==
    IF \/ contour.area * FixScale < cols * rows * cfg.min_area_ratio
       \/ contour.area * FixScale > cols * rows * cfg.max_area_ratio
    THEN Rejected
    ELSE IF Len(contour.approx) # 4 THEN Rejected
    ELSE examine_quadrilateral(order_points_clockwise(contour.approx),
                               contour.area, cfg, cols, rows)

\* best_quad, best_score (in 1 / FixScale) and best_area after a contour
\* with loop body outcome c
keep_best(best, c) ==
    IF c.passed /\ c.score > best.score
    THEN [quad |-> c.quad, score |-> c.score, area |-> c.area]
    ELSE best

\* The loop over the contours from contour i on; best is best_quad,
\* best_score and best_area so far.
RECURSIVE best_quadrilateral(_, _, _, _, _, _)
best_quadrilateral(contours, i, best, cfg, cols, rows) ==
    IF i > Len(contours) THEN best
    ELSE best_quadrilateral(
             contours, i + 1,
             keep_best(best, examine_contour(contours[i], cfg, cols, rows)),
             cfg, cols, rows)

NoBest == [quad |-> <<>>, score |-> -FixScale, area |-> 0]

\* corners, center, area, perimeter and aspect ratio of the best
\* quadrilateral q, whose mean side lengths are width and height
paper_measures(q, area, width, height) ==
    [ZeroPaperResult EXCEPT
        !.corners = q,
        !.center = Pt(q[1].x + q[2].x + q[3].x + q[4].x,
                      q[1].y + q[2].y + q[3].y + q[4].y, 4),
        !.area = area,
        !.perimeter = edge_length(q[1], q[2]) + edge_length(q[2], q[3])
                    + edge_length(q[3], q[4]) + edge_length(q[4], q[1]),
        !.aspect_ratio =
            (Min2(width, height) * FixScale) \div Max2(width, height)]

\* A faulty variant of paper_pose: the pose is solved for whatever the focal
\* length.
paper_pose_always(filled, homographies, cfg, e1) ==
    UNION {
      LET r1 == IF e.found THEN [filled EXCEPT !.homography = e.H]
                           ELSE filled
          e2 == [e1 EXCEPT !.estimator = 1, !.found = e.found]
      IN  { [result |->
                [(IF s.solved
                  THEN [r1 EXCEPT !.rvec = s.rvec, !.tvec = s.tvec]
                  ELSE r1) EXCEPT !.status = 1],
             ext |-> [e2 EXCEPT !.pnp = 1, !.solved = s.solved]] :
            s \in solvePnP }
      : e \in homographies }

\* homography, pose and status, once the measures are in filled: the set
\* of [result, ext], one per answer of cv::findHomography and cv::solvePnP
paper_pose(filled, homographies, cfg, e1) ==
    UNION {
      LET r1 == IF e.found THEN [filled EXCEPT !.homography = e.H]
                           ELSE filled
          e2 == [e1 EXCEPT !.estimator = 1, !.found = e.found]
      IN  IF cfg.focal_length > 0
          THEN { [result |->
                     [(IF s.solved
                       THEN [r1 EXCEPT !.rvec = s.rvec, !.tvec = s.tvec]
                       ELSE r1) EXCEPT !.status = 1],
                  ext |-> [e2 EXCEPT !.pnp = 1, !.solved = s.solved]] :
                 s \in solvePnP }
          ELSE { [result |-> [r1 EXCEPT !.status = 1], ext |-> e2] }
      : e \in homographies }

\* the function from the end of the loop on, best being what the loop kept
paper_of_best(best, cfg, e1) ==
    IF best.quad = <<>>
    THEN { [result |-> [ZeroPaperResult EXCEPT !.status = 0], ext |-> e1] }
    ELSE
      LET width == (edge_length(best.quad[1], best.quad[2])
                    + edge_length(best.quad[4], best.quad[3])) \div 2
          height == (edge_length(best.quad[1], best.quad[4])
                     + edge_length(best.quad[2], best.quad[3])) \div 2
          pw0 == IF cfg.paper_width_mm > 0 THEN cfg.paper_width_mm ELSE 210
          ph0 == IF cfg.paper_height_mm > 0 THEN cfg.paper_height_mm ELSE 297
          swap == width > height
      IN  paper_pose(paper_measures(best.quad, best.area, width, height),
                     findHomography4(IF swap THEN ph0 ELSE pw0,
                                     IF swap THEN pw0 ELSE ph0, best.quad),
                     cfg, e1)

\* the function once cv::findContours has returned contours
paper_of_contours(contours, cfg, cols, rows, e1) ==
    IF contours = <<>>
    THEN { [result |-> [ZeroPaperResult EXCEPT !.status = 0], ext |-> e1] }
    ELSE paper_of_best(
             best_quadrilateral(contours, 1, NoBest, cfg, cols, rows),
             cfg, e1)

\* The whole function on a gray image of cols x rows pixels: the set of
\* [result, ext] it can end with.
detect_paper_internal(cols, rows, config) ==
    UNION { paper_of_contours(contours, effective_config(config), cols, rows,
                              [NoPaperExt EXCEPT !.cols = cols, !.rows = rows,
                                                 !.contours = contours])
            : contours \in findContours }

(* ------------------------- hg_detect_paper --------------------------- *)

\* widths and heights of the images handed to the paper detector
PaperDims == {-1, 0, ImgUnit, 2 * ImgUnit}

hg_detect_paper ==
    /\ pc = "idle"
    /\ \E image_data \in BOOLEAN,                         \* TRUE: not null
          image_width \in PaperDims, image_height \in PaperDims,
          image_channels \in Channels, config \in ConfigArgs :
        /\ call' = [ep |-> "hg_detect_paper",
                    image_data |-> image_data,
                    image_width |-> image_width,
                    image_height |-> image_height,
                    image_channels |-> image_channels,
                    config |-> config]
        /\ IF ~image_data
           THEN /\ result' = [ZeroPaperResult EXCEPT !.status = -1]
                /\ ext' = NoPaperExt
           ELSE IF image_width <= 0 \/ image_height <= 0
           THEN /\ result' = [ZeroPaperResult EXCEPT !.status = -1]
                /\ ext' = NoPaperExt
           ELSE IF bad_channels(image_channels)
           THEN /\ result' = [ZeroPaperResult EXCEPT !.status = -1]
                /\ ext' = NoPaperExt
           ELSE \E o \in detect_paper_internal(
                             image_width, image_height, config) :
                  /\ result' = o.result
                  /\ ext' = o.ext
    /\ pc' = "returned"

(* --------------------- hg_detect_paper_encoded ----------------------- *)

\* cv::imdecode on the bytes of a photograph
imdecode_photo ==
    {Undecodable} \cup
    { [empty |-> FALSE, cols |-> c, rows |-> r] :
          c \in {ImgUnit, 2 * ImgUnit}, r \in {ImgUnit, 2 * ImgUnit} }

hg_detect_paper_encoded ==
    /\ pc = "idle"
    /\ \E image_bytes \in BOOLEAN, image_size \in 0 .. 1,
          config \in ConfigArgs :
        /\ call' = [ep |-> "hg_detect_paper_encoded",
                    image_bytes |-> image_bytes,
                    image_size |-> image_size,
                    config |-> config]
        /\ IF ~image_bytes \/ image_size = 0
           THEN /\ result' = [ZeroPaperResult EXCEPT !.status = -1]
                /\ ext' = NoPaperExt
           ELSE \E gray \in imdecode_photo :
                  IF gray.empty
                  THEN /\ result' = [ZeroPaperResult EXCEPT !.status = -1]
                       /\ ext' = [NoPaperExt EXCEPT
                                    !.decodes = <<Decode("image", gray)>>]
                  ELSE \E o \in detect_paper_internal(
                                    gray.cols, gray.rows, config) :
                         /\ result' = o.result
                         /\ ext' = [o.ext EXCEPT
                                      !.decodes = <<Decode("image", gray)>>]
    /\ pc' = "returned"

(* ----------------- the helper routines, called alone ----------------- *)

GridPoints == { P(x, y) : x \in 0 .. GridMax, y \in 0 .. GridMax }

\* point lists the helpers are tried on: every list of four grid points,
\* and every list of three
PointLists == [1..4 -> GridPoints] \cup [1..3 -> GridPoints]

call_order_points_clockwise ==
    /\ pc = "idle"
    /\ \E pts \in PointLists :
        /\ call' = [ep |-> "order_points_clockwise", pts |-> pts]
        /\ result' = [ordered |-> order_points_clockwise(pts)]
    /\ ext' = NoExt
    /\ pc' = "returned"

call_is_convex_quadrilateral ==
    /\ pc = "idle"
    /\ \E pts \in PointLists :
        /\ call' = [ep |-> "is_convex_quadrilateral", pts |-> pts]
        /\ result' = [convex |-> is_convex_quadrilateral(pts)]
    /\ ext' = NoExt
    /\ pc' = "returned"

(* --------------------------- the caller ------------------------------ *)

\* The caller takes the returned struct; nothing of the call is kept.
Release ==
    /\ pc = "returned"
    /\ pc' = "idle"
    /\ call' = [ep |-> "none"]
    /\ ext' = NoExt
    /\ result' = ZeroHomographyResult

Init ==
    /\ pc = "idle"
    /\ call = [ep |-> "none"]
    /\ ext = NoExt
    /\ result = ZeroHomographyResult

Next ==
    \/ hg_find_homography
    \/ hg_find_homography_raw
    \/ hg_find_homography_from_points
    \/ hg_detect_paper
    \/ hg_detect_paper_encoded
    \/ call_order_points_clockwise
    \/ call_is_convex_quadrilateral
    \/ Release

Spec == Init /\ [][Next]_vars

(* ========================== properties =============================== *)

Returned(ep) == pc = "returned" /\ call.ep = ep

MatchCalls ==
    {"hg_find_homography", "hg_find_homography_raw",
     "hg_find_homography_from_points"}

PaperCalls == {"hg_detect_paper", "hg_detect_paper_encoded"}

MatchReturned == pc = "returned" /\ call.ep \in MatchCalls

PaperReturned == pc = "returned" /\ call.ep \in PaperCalls

ArraysPresent == call.pts0_x /\ call.pts0_y /\ call.pts1_x /\ call.pts1_y

\* C1: hg_find_homography_from_points with four non-null arrays and
\* num_points < 4 (zero and negative counts included) returns status 0
\* with num_matches equal to the supplied num_points, and the homography
\* estimator is not invoked.
C1_FewPointsRejected ==
    (Returned("hg_find_homography_from_points") /\ ArraysPresent
        /\ call.num_points < 4)
    => /\ result.status = 0
       /\ result.num_matches = call.num_points
       /\ ext.estimator = 0

\* the case of C1 at a negative count and an invalid anchor size
C1_Witness ==
    /\ Returned("hg_find_homography_from_points") /\ ArraysPresent
    /\ call.num_points = -1 /\ call.anchor_width = 0
    /\ result.status = 0 /\ result.num_matches = -1

\* C2: hg_find_homography_from_points returns status -1 whenever one of
\* the four arrays is null or anchor_width <= 0 or anchor_height <= 0,
\* for every value of num_points.
C2_InvalidInputIsError ==
    (Returned("hg_find_homography_from_points")
        /\ (\/ ~ArraysPresent
            \/ call.anchor_width <= 0 \/ call.anchor_height <= 0))
    => result.status = -1

\* C3: in both match pipelines status 1 is returned only if the estimator
\* ran, gave a matrix and its inlier count is >= 10 and >= 0.3 * total,
\* where total is the number of matches that passed the ratio test, resp.
\* num_points; when the estimator ran and a bound fails, the status is 0.
C3_Total ==
    IF call.ep = "hg_find_homography_from_points"
    THEN call.num_points
    ELSE ext.knn[KnnGood]

C4_SuccessHasRegularMatrix ==
    ((MatchReturned \/ PaperReturned) /\ result.status = 1)
    => Det3(result.homography) # 0

(* Geometry the properties are stated with, not taken from the code.      *)

\* Twice the signed area of the triangle o, a, b, times o.w * a.w * b.w:
\* positive when o -> a -> b turns clockwise on the screen (y downward).
Turn(o, a, b) ==
      o.x * (a.y * b.w - b.y * a.w)
    - o.y * (a.x * b.w - b.x * a.w)
    + o.w * (a.x * b.y - b.x * a.y)

\* the turn at vertex i + 1 of the quadrilateral q, i in 1..4
TurnAt(q, i) == Turn(q[i], q[(i % 4) + 1], q[((i + 1) % 4) + 1])

AllClockwise(q) == \A i \in 1..4 : TurnAt(q, i) > 0

AllCounterClockwise(q) == \A i \in 1..4 : TurnAt(q, i) < 0

\* p lies strictly inside the triangle a, b, c
StrictlyInside(p, a, b, c) ==
    \/ (Turn(a, b, p) > 0 /\ Turn(b, c, p) > 0 /\ Turn(c, a, p) > 0)
    \/ (Turn(a, b, p) < 0 /\ Turn(b, c, p) < 0 /\ Turn(c, a, p) < 0)

\* q has one reflex vertex: one vertex lies strictly inside the triangle
\* of the other three
OneReflexVertex(q) ==
    \E i \in 1..4 :
        StrictlyInside(q[i], q[(i % 4) + 1], q[((i + 1) % 4) + 1],
                       q[((i + 2) % 4) + 1])

\* q is an axis-aligned rectangle of non-zero width and height, its corners
\* in cyclic order (either direction, from any corner)
AxisAlignedRectangle(q) ==
    \/ /\ q[1].y = q[2].y /\ q[2].x = q[3].x
       /\ q[3].y = q[4].y /\ q[4].x = q[1].x
       /\ q[1].x # q[2].x /\ q[2].y # q[3].y
    \/ /\ q[1].x = q[2].x /\ q[2].y = q[3].y
       /\ q[3].x = q[4].x /\ q[4].y = q[1].y
       /\ q[1].y # q[2].y /\ q[2].x # q[3].x

\* The match pipeline got a matrix with enough inliers, so the projected
\* corners are in the result and the shape checks decide the status.
ShapeChecked ==
    /\ MatchReturned
    /\ ext.estimator = 1 /\ ext.found
    /\ ext.inliers >= 10 /\ 10 * ext.inliers >= 3 * ext.total

\* C5: the convexity check accepts exactly when the four cyclic cross
\* products are all > 0 or all < 0: is_convex_quadrilateral rejects every
\* quadrilateral with one reflex vertex and accepts every axis-aligned
\* rectangle in cyclic order; the inline check of the match pipelines
\* lets no quadrilateral through whose turns are not all of one strict
\* sign, and an axis-aligned rectangle is refused only for its distortion.
C5_ConvexityCheck ==
    /\ (Returned("is_convex_quadrilateral") /\ Len(call.pts) = 4) =>
          /\ OneReflexVertex(call.pts) => ~result.convex
          /\ AxisAlignedRectangle(call.pts) => result.convex
          /\ result.convex <=>
                (AllClockwise(call.pts) \/ AllCounterClockwise(call.pts))
    /\ ShapeChecked =>
          /\ OneReflexVertex(result.corners) => result.status = 0
          /\ ~(AllClockwise(result.corners)
                  \/ AllCounterClockwise(result.corners))
                => result.status = 0
          /\ (AxisAlignedRectangle(result.corners) /\ result.status = 0)
                => too_distorted(result.corners,
                                 ext.anchor_cols, ext.anchor_rows)

\* a dart handed to is_convex_quadrilateral
C5_Witness ==
    /\ Returned("is_convex_quadrilateral") /\ Len(call.pts) = 4
    /\ OneReflexVertex(call.pts)
    /\ ~result.convex

\* (top / left)^2 over (width / height)^2 of the returned corners, n / d
ReturnedDistortionSq ==
    LET top  == EdgeSq(result.corners[1], result.corners[2])
        left == EdgeSq(result.corners[1], result.corners[4])
    IN  [n |-> top.n * left.d * ext.anchor_rows * ext.anchor_rows,
         d |-> top.d * left.n * ext.anchor_cols * ext.anchor_cols]

\* the corners passed the convexity check, so the distortion decides
DistortionChecked ==
    /\ ShapeChecked
    /\ AllClockwise(result.corners) \/ AllCounterClockwise(result.corners)

\* C6 as stated: a convex quadrilateral with distortion > 3 or < 0.33 is
\* always rejected, one with distortion = 1 is always accepted
\* (0.33^2 = 1089 / 10000).
C6_DistortionWindow_033 ==
    DistortionChecked =>
      LET ds == ReturnedDistortionSq
      IN  /\ (ds.n > 9 * ds.d \/ 10000 * ds.n < 1089 * ds.d)
                => result.status = 0
          /\ ds.n = ds.d => result.status = 1

\* C6: a convex quadrilateral with distortion > 3 or < 0.3 is always
\* rejected (status 0), one with distortion = 1 is always accepted.
C6_DistortionWindow ==
    DistortionChecked =>
      LET ds == ReturnedDistortionSq
      IN  /\ (ds.n > 9 * ds.d \/ 100 * ds.n < 9 * ds.d)
                => result.status = 0
          /\ ds.n = ds.d => result.status = 1

\* a convex quadrilateral below the window: distortion < 0.3, rejected
C6_Witness ==
    /\ DistortionChecked
    /\ 100 * ReturnedDistortionSq.n < 9 * ReturnedDistortionSq.d
    /\ result.status = 0

\* C7: order_points_clockwise is idempotent on every list of four points,
\* ties of x + y or y - x included: ordering its output again gives the
\* same sequence.
C7_OrderIdempotent ==
    (Returned("order_points_clockwise") /\ Len(call.pts) = 4)
    => order_points_clockwise(result.ordered) = result.ordered

\* C8: in every result with status 1 the four corners are in clockwise
\* order on the screen: all four cyclic cross products are positive.
C8_CornersClockwise ==
    ((MatchReturned \/ PaperReturned) /\ result.status = 1)
    => AllClockwise(result.corners)

\* C9: hg_find_homography checks in a fixed order: status -1 if a buffer
\* pointer is null or a size is 0, and then nothing is decoded; otherwise
\* the anchor is decoded first and status is -2 if that fails, the scene
\* not being decoded; otherwise -3 if the scene fails to decode; otherwise
\* 0 or 1.  The status is always one of 1, 0, -1, -2, -3.
C9_EncodedCheckOrder ==
    Returned("hg_find_homography") =>
      /\ result.status \in {1, 0, -1, -2, -3}
      /\ IF \/ ~call.anchor_bytes \/ ~call.scene_bytes
            \/ call.anchor_size = 0 \/ call.scene_size = 0
         THEN result.status = -1 /\ ext.decodes = <<>>
         ELSE /\ Len(ext.decodes) >= 1
              /\ ext.decodes[1].image = "anchor"
              /\ IF ext.decodes[1].empty
                 THEN result.status = -2 /\ Len(ext.decodes) = 1
                 ELSE /\ Len(ext.decodes) = 2
                      /\ ext.decodes[2].image = "scene"
                      /\ IF ext.decodes[2].empty
                         THEN result.status = -3
                         ELSE result.status \in {0, 1}

\* the anchor does not decode: -2, and the scene was not touched
C9_Witness ==
    /\ Returned("hg_find_homography")
    /\ call.anchor_bytes /\ call.scene_bytes
    /\ call.anchor_size > 0 /\ call.scene_size > 0
    /\ ext.decodes = << [image |-> "anchor", empty |-> TRUE] >>
    /\ result.status = -2

RawInputInvalid ==
    \/ ~call.anchor_data \/ ~call.scene_data
    \/ call.anchor_width <= 0 \/ call.anchor_height <= 0
    \/ call.scene_width <= 0 \/ call.scene_height <= 0
    \/ call.anchor_channels \notin {1, 3, 4}
    \/ call.scene_channels \notin {1, 3, 4}

PaperInputInvalid ==
    \/ ~call.image_data
    \/ call.image_width <= 0 \/ call.image_height <= 0
    \/ call.image_channels \notin {1, 3, 4}

\* C10: hg_find_homography_raw and hg_detect_paper return status -1
\* exactly when a pixel buffer is null, a width or height is <= 0 or a
\* channel count is not 1, 3 or 4, and 0 or 1 for every other input;
\* hg_detect_paper_encoded returns -1 exactly when the buffer is null,
\* empty or does not decode, and 0 or 1 otherwise.
C10_InputErrors ==
    /\ Returned("hg_find_homography_raw") =>
          IF RawInputInvalid THEN result.status = -1
                             ELSE result.status \in {0, 1}
    /\ Returned("hg_detect_paper") =>
          IF PaperInputInvalid THEN result.status = -1
                               ELSE result.status \in {0, 1}
    /\ Returned("hg_detect_paper_encoded") =>
          IF ~call.image_bytes \/ call.image_size = 0
          THEN result.status = -1 /\ ext.decodes = <<>>
          ELSE /\ Len(ext.decodes) = 1
               /\ IF ext.decodes[1].empty THEN result.status = -1
                                          ELSE result.status \in {0, 1}

\* a two-channel image of valid size handed to hg_detect_paper
C10_Witness ==
    /\ Returned("hg_detect_paper")
    /\ call.image_data /\ call.image_width > 0 /\ call.image_height > 0
    /\ call.image_channels = 2
    /\ result.status = -1

ImageCalls == {"hg_find_homography", "hg_find_homography_raw"}

\* a row of knn_matches with exactly two neighbours, the nearest strictly
\* nearer than 0.75 times the second
Survives(m) == m.size = 2 /\ 4 * m.d0 < 3 * m.d1

\* the number of rows BFMatcher returned that survive
SurvivingMatches ==
      (IF Survives(KnnGood) THEN ext.knn[KnnGood] ELSE 0)
    + (IF Survives(KnnTie) THEN ext.knn[KnnTie] ELSE 0)
    + (IF Survives(KnnFar) THEN ext.knn[KnnFar] ELSE 0)
    + (IF Survives(KnnSingle) THEN ext.knn[KnnSingle] ELSE 0)

\* C11: in compute_homography_internal a match survives the ratio test
\* only with exactly two neighbours and nearest < 0.75 * second (strict);
\* rows at the threshold or with one neighbour do not count.  With fewer
\* than 10 survivors the call returns status 0, num_matches = the number
\* of survivors, and the estimator is not invoked; otherwise the
\* estimator gets exactly the survivors.
C11_RatioTest ==
    (pc = "returned" /\ call.ep \in ImageCalls /\ ext.matcher = 1) =>
      /\ ~Survives(KnnTie) /\ ~Survives(KnnSingle) /\ ~Survives(KnnFar)
      /\ IF SurvivingMatches < 10
         THEN /\ result.status = 0
              /\ result.num_matches = SurvivingMatches
              /\ ext.estimator = 0
         ELSE ext.estimator = 1 /\ ext.total = SurvivingMatches

\* nine survivors and a row exactly at the threshold: not enough
C11_Witness ==
    /\ pc = "returned" /\ call.ep \in ImageCalls /\ ext.matcher = 1
    /\ ext.knn[KnnGood] = 9 /\ ext.knn[KnnTie] = 1
    /\ result.status = 0 /\ result.num_matches = 9
    /\ ext.estimator = 0

\* the paper detector got past the input checks and ran on an image
DetectorRan == PaperReturned /\ ext.cols > 0

DefaultConfigArg == [null |-> FALSE, cfg |-> hg_default_paper_config]

\* what the paper detector can return on the image of this call (same
\* size, same contours) when it is given the configuration config
OutcomesWith(config) ==
    paper_of_contours(ext.contours, effective_config(config),
                      ext.cols, ext.rows,
                      [NoPaperExt EXCEPT !.cols = ext.cols,
                                         !.rows = ext.rows,
                                         !.contours = ext.contours])

ThisOutcome == [result |-> result, ext |-> [ext EXCEPT !.decodes = <<>>]]

\* C13: paper detection with a NULL config is equivalent to paper
\* detection with the value hg_default_paper_config() returns: the twelve
\* fields used on the NULL path equal the accessor's, and on every image
\* what one of the two calls returns the other returns as well.
C13_NullIsDefault ==
    /\ effective_config(NullConfig) = hg_default_paper_config
    /\ hg_default_paper_config.canny_threshold1 = 50
    /\ hg_default_paper_config.canny_threshold2 = 150
    /\ hg_default_paper_config.blur_kernel_size = 5
    /\ hg_default_paper_config.paper_width_mm = 210
    /\ hg_default_paper_config.paper_height_mm = 297
    /\ hg_default_paper_config.focal_length = 0
    /\ hg_default_paper_config.cx = 0 /\ hg_default_paper_config.cy = 0
    /\ (DetectorRan /\ call.config = NullConfig)
          => ThisOutcome \in OutcomesWith(DefaultConfigArg)
    /\ (DetectorRan /\ call.config = DefaultConfigArg)
          => ThisOutcome \in OutcomesWith(NullConfig)

\* a paper found with a NULL config
C13_Witness ==
    /\ DetectorRan /\ call.config = NullConfig
    /\ result.status = 1
    /\ ThisOutcome \in OutcomesWith(DefaultConfigArg)

\* loop body outcome of contour i of this call, under the call's config
SurvivorAt(i) ==
    examine_contour(ext.contours[i], effective_config(call.config),
                    ext.cols, ext.rows)

\* the contours of this call that pass every per-contour filter
Survivors == { i \in 1..Len(ext.contours) : SurvivorAt(i).passed }

\* C14: the paper detector returns status 0 exactly when no contour
\* survives the filters, and otherwise returns the survivor of greatest
\* score = area * (1 - relative aspect error), the earliest one on ties,
\* whatever the configuration (tolerances of 1 and more included).
C14_SelectsBestSurvivor ==
    DetectorRan =>
      /\ (result.status = 0) <=> (Survivors = {})
      /\ result.status = 1 =>
            \E i \in Survivors :
               /\ result.corners = SurvivorAt(i).quad
               /\ \A j \in Survivors :
                     \/ SurvivorAt(j).score < SurvivorAt(i).score
                     \/ SurvivorAt(j).score = SurvivorAt(i).score /\ j >= i

\* a status-1 paper result of a call that got past the input checks
PaperFound == DetectorRan /\ result.status = 1

\* 400 * |edge i of q|^2 >= side^2, that is, the edge is at least 5% of side
EdgeAtLeastFivePercent(q, i, side) ==
    LET e == EdgeSq(q[i], q[(i % 4) + 1])
    IN  400 * e.n >= Sq(side) * e.d

\* C15: a paper result with status 1 describes a quadrilateral that passed
\* every filter: it is the ordered four-vertex polygon of one of the image's
\* contours, its area lies within [min_area_ratio, max_area_ratio] of the
\* image area, its corners are convex in order, each edge is at least 5% of
\* the smaller image side, its aspect_ratio lies in (0, 1], and with an
\* expected aspect ratio the relative error is within the tolerance.
C15_FoundPassedFilters ==
    PaperFound =>
      LET cfg == effective_config(call.config)
          q == result.corners
          image_area == ext.cols * ext.rows
      IN  /\ \E i \in 1..Len(ext.contours) :
                 /\ Len(ext.contours[i].approx) = 4
                 /\ ext.contours[i].area = result.area
                 /\ q = order_points_clockwise(ext.contours[i].approx)
          /\ result.area * FixScale >= image_area * cfg.min_area_ratio
          /\ result.area * FixScale <= image_area * cfg.max_area_ratio
          /\ Len(q) = 4
          /\ AllClockwise(q) \/ AllCounterClockwise(q)
          /\ \A i \in 1..4 :
                 EdgeAtLeastFivePercent(q, i, Min2(ext.cols, ext.rows))
          /\ result.aspect_ratio > 0 /\ result.aspect_ratio <= FixScale
          /\ cfg.expected_aspect_ratio > 0 =>
                 Abs(result.aspect_ratio - cfg.expected_aspect_ratio) * FixScale
                   <= cfg.aspect_ratio_tolerance * cfg.expected_aspect_ratio

\* a paper found under the default configuration among two contours, the
\* other one rejected by a filter
C15_Witness ==
    /\ PaperFound
    /\ call.config = DefaultConfigArg
    /\ Len(ext.contours) = 2
    /\ Cardinality(Survivors) = 1

\* the loop over the contours of this call kept a quadrilateral
QuadSelected ==
    /\ DetectorRan
    /\ best_quadrilateral(ext.contours, 1, NoBest,
                          effective_config(call.config),
                          ext.cols, ext.rows).quad # <<>>

\* C16: in the paper detector cv::solvePnP is called exactly when a
\* quadrilateral was selected and focal_length > 0; with focal_length <= 0,
\* or when the solver reports failure, rvec and tvec are all zero; and a
\* selected quadrilateral gives status 1 whatever cv::findHomography and
\* cv::solvePnP answer.
C16_PoseGating ==
    PaperReturned =>
      /\ (ext.pnp = 1) <=>
            (QuadSelected /\ effective_config(call.config).focal_length > 0)
      /\ QuadSelected => result.status = 1
      /\ (QuadSelected /\ (effective_config(call.config).focal_length <= 0
                            \/ ~ext.solved))
            => (result.rvec = ZeroVec /\ result.tvec = ZeroVec)

\* found, with a focal length, although both solvers failed
C16_Witness ==
    /\ QuadSelected
    /\ effective_config(call.config).focal_length > 0
    /\ ext.estimator = 1 /\ ~ext.found
    /\ ext.pnp = 1 /\ ~ext.solved
    /\ result.status = 1 /\ result.rvec = ZeroVec /\ result.tvec = ZeroVec

\* the image pipeline stopped before matching: fewer than 4 keypoints in
\* one of the images, or no descriptors
StoppedBeforeMatching ==
    /\ call.ep \in ImageCalls
    /\ ext.anchor_cols > 0
    /\ ext.kp_anchor < 4 \/ ext.kp_scene < 4 \/ ext.desc_empty

\* C17: num_matches of the match entry points.  With status 1 it is the
\* number of RANSAC inliers, at least 10 and at most the number of
\* correspondences.  With status 0 after the ratio test or after the
\* points were taken in it is the number of correspondences handed (or to
\* be handed) to the estimator, not the inlier count; with status 0 for
\* fewer than 4 keypoints or no descriptors it is 0.
C17_NumMatchesMeaning ==
    MatchReturned =>
      /\ result.status = 1 =>
            /\ result.num_matches = ext.inliers
            /\ result.num_matches >= 10
            /\ result.num_matches <= ext.total
      /\ (result.status = 0 /\ call.ep \in ImageCalls /\ ext.matcher = 1)
            => result.num_matches = SurvivingMatches
      /\ (result.status = 0 /\ ext.estimator = 1
             /\ call.ep = "hg_find_homography_from_points")
            => result.num_matches = call.num_points
      /\ (result.status = 0 /\ ext.estimator = 1 /\ ext.inliers # ext.total)
            => result.num_matches # ext.inliers
      /\ (result.status = 0 /\ StoppedBeforeMatching)
            => result.num_matches = 0

\* a quadrilateral rejected after a confident estimate: num_matches is the
\* number of correspondences, which is more than the number of inliers
C17_Witness ==
    /\ MatchReturned /\ result.status = 0
    /\ ext.estimator = 1 /\ ext.found
    /\ ~low_confidence(ext.inliers, ext.total)
    /\ ext.inliers < ext.total
    /\ result.num_matches = ext.total

\* C18: hg_find_homography_from_points never returns status 1 when
\* num_points < 10; with 4 to 9 correspondences, non-null arrays and a
\* positive anchor size, cv::findHomography is called and the call returns
\* status 0 with num_matches = num_points.
C18_UnderTenNeverFound ==
    (Returned("hg_find_homography_from_points") /\ call.num_points < 10) =>
      /\ result.status # 1
      /\ (ArraysPresent /\ call.num_points >= 4
            /\ call.anchor_width > 0 /\ call.anchor_height > 0)
           => /\ ext.estimator = 1
              /\ result.status = 0
              /\ result.num_matches = call.num_points

\* nine correspondences, all of them inliers of a matrix that was found
C18_Witness ==
    /\ Returned("hg_find_homography_from_points") /\ ArraysPresent
    /\ call.num_points = 9
    /\ ext.estimator = 1 /\ ext.found /\ ext.inliers = 9
    /\ result.status = 0 /\ result.num_matches = 9

Permutations4 == { f \in [1..4 -> 1..4] : \A i, j \in 1..4 : f[i] = f[j] => i = j }

\* the four points, in some order, are the corners of a strictly convex
\* quadrilateral (so they are distinct and no three are on a line)
StrictlyConvexInSomeOrder(pts) ==
    \E f \in Permutations4 :
        AllClockwise([i \in 1..4 |-> pts[f[i]]])

\* C19: on the four vertices of a strictly convex quadrilateral, given in
\* any order (diamonds, whose vertices tie on x + y and y - x, included),
\* order_points_clockwise returns a permutation of the four vertices, and
\* the result passes is_convex_quadrilateral.
C19_OrderKeepsConvex ==
    (Returned("order_points_clockwise") /\ Len(call.pts) = 4
        /\ StrictlyConvexInSomeOrder(call.pts))
    => /\ \E f \in Permutations4 :
             result.ordered = [i \in 1..4 |-> call.pts[f[i]]]
       /\ is_convex_quadrilateral(result.ordered)

\* C20: a match entry point that returns a status other than 1 returns
\* zeroed geometry (homography, corners, center, rotation, scale), also
\* when the quadrilateral was rejected by the convexity or the distortion
\* check.
C20_NoGeometryUnlessFound ==
    (MatchReturned /\ result.status # 1)
    => /\ result.homography = ZeroMatrix
       /\ \A i \in 1..4 : result.corners[i].x = 0 /\ result.corners[i].y = 0
       /\ result.center.x = 0 /\ result.center.y = 0
       /\ result.rotation.dy = 0 /\ result.rotation.dx = 0
       /\ result.scale.top_n = 0 /\ result.scale.left_n = 0

====
